---- MODULE Spec2Model ----
(***************************************************************************)
(* malloc_buf: MallocBuffer<T> and MallocString (src/src/lib.rs).          *)
(*                                                                         *)
(* The state is the foreign heap (the blocks malloc handed out), the       *)
(* caller's bindings that hold wrappers, and the trace of the foreign and  *)
(* destructor calls the wrappers make (ptr::read of an element, free).     *)
(* The actions are the public operations: MallocBuffer::new,               *)
(* MallocString::new, deref of either, drop, and the move of a wrapper     *)
(* from one binding to another.                                            *)
(***************************************************************************)
EXTENDS Integers, Sequences, FiniteSets

VARIABLES
    heap,      \* the foreign heap: address -> the block's cells, and whether it is live
    slots,     \* the caller's bindings: lifecycle state and the wrapper's fields
    events,    \* per binding, the ptr::read and free calls its drop made, in order
    last,      \* what the last step returned, if it was a constructor call or a deref
    given      \* history: the arguments of the new() that built each binding's wrapper

vars == <<heap, slots, events, last, given>>

----------------------------------------------------------------------------
(* Bounds of the model. *)

\* largest number of elements in the block handed to MallocBuffer::new
MaxLen == 2
\* largest number of bytes in the block handed to MallocString::new
MaxStrLen == 3
\* number of bindings that may hold a wrapper during one run
MaxSlots == 2

----------------------------------------------------------------------------
(* Addresses and memory. *)

\* ptr.is_null(): the null address
NULL == 0
\* 0x1 as *const T, the base of the empty slice of a null buffer
Sentinel == 1

\* addresses malloc returned: one block of elements, one block of bytes
BufAddrs == {16}
StrAddrs == {32}
RealAddrs == BufAddrs \cup StrAddrs

\* the block of n elements holds 1, 2, .., n in order, as in test_buf
Iota(n) == [i \in 1..n |-> i]
\* byte values stored in the block of bytes: nul, 'h', and 0xC3 0xA9, which
\* is well-formed only as the pair C3 A9
Bytes == {0, 104, 195, 169}

\* what a read outside every live block yields in the model; no run that
\* keeps the constructors' preconditions performs such a read
Poison == 0 - 1

Slots == 1..MaxSlots

Nuls(k) == [i \in 1..k |-> 0]

RECURSIVE SeqsUpTo(_, _)
SeqsUpTo(S, n) ==
    IF n = 0 THEN {<<>>}
    ELSE LET shorter == SeqsUpTo(S, n - 1)
         IN  shorter \cup {Append(q, x) : q \in {r \in shorter : Len(r) = n - 1}, x \in S}

HasNul(cells) == \E i \in 1..Len(cells) : cells[i] = 0

\* *ptr.offset(i): the value stored i elements after address a
Load(a, i) ==
    IF a \in RealAddrs /\ i >= 0 /\ i < Len(heap[a].cells)
    THEN heap[a].cells[i + 1]
    ELSE Poison

\* the size of the block malloc handed out at address a
AllocSize(a) == IF a \in RealAddrs THEN Len(heap[a].cells) ELSE 0
----------------------------------------------------------------------------
(* The wrapper's pure functions. *)

None == [ok |-> FALSE, ptr |-> NULL, len |-> 0]
Some(p, n) == [ok |-> TRUE, ptr |-> p, len |-> n]

\* faulty variant: every null pointer is refused, whatever the length
MallocBuffer_new_null_fails(ptr, len) ==
    IF ptr = NULL
    THEN None
    ELSE Some(ptr, len)

\* faulty variant: the length is trusted and nothing is refused
MallocBuffer_new_trusting(ptr, len) == Some(ptr, len)

\* MallocBuffer::new: None exactly for a null pointer with a nonzero length
MallocBuffer_new(ptr, len) ==
    IF len > 0 /\ ptr = NULL
    THEN None
    ELSE Some(ptr, len)

\* slice::from_raw_parts(ptr, len): a view of len elements based at ptr
from_raw_parts(ptr, len) == [base |-> ptr, len |-> len, panic |-> FALSE]

\* the slice index that panicked instead of yielding a view
Panicked == [base |-> NULL, len |-> 0, panic |-> TRUE]

\* faulty variant: the two branches of the base pointer are swapped
MallocBuffer_deref_swapped(self) ==
    LET ptr == IF self.len = 0 /\ self.ptr = NULL
               THEN self.ptr
               ELSE Sentinel
    IN  from_raw_parts(ptr, self.len)

\* faulty variant: no placeholder, the recorded pointer is always the base
MallocBuffer_deref_raw(self) == from_raw_parts(self.ptr, self.len)

\* Deref for MallocBuffer: the base is 0x1 for a null pointer of length 0
MallocBuffer_deref(self) ==
    LET ptr == IF self.len = 0 /\ self.ptr = NULL
               THEN Sentinel
               ELSE self.ptr
    IN  from_raw_parts(ptr, self.len)

\* the elements a caller reads through a view, in order
ViewElems(v) == [i \in 1..v.len |-> Load(v.base, i - 1)]

\* CStr::from_ptr(ptr).to_bytes(): the bytes strictly before the first nul
RECURSIVE ScanToNul(_, _)
ScanToNul(ptr, i) ==
    IF i >= AllocSize(ptr) \/ Load(ptr, i) = 0
    THEN <<>>
    ELSE <<Load(ptr, i)>> \o ScanToNul(ptr, i + 1)

to_bytes(ptr) == ScanToNul(ptr, 0)

IsCont(b) == b >= 128 /\ b <= 191

\* str::from_utf8(bytes).is_ok(): well-formed UTF-8 (Unicode table 3-7)
RECURSIVE from_utf8_is_ok(_)
from_utf8_is_ok(bytes) ==
    LET n == Len(bytes)
        b1 == bytes[1]
        rest(k) == SubSeq(bytes, k + 1, n)
    IN  IF n = 0 THEN TRUE
        ELSE IF b1 < 128 THEN from_utf8_is_ok(rest(1))
        ELSE IF b1 >= 194 /\ b1 <= 223
             THEN n >= 2 /\ IsCont(bytes[2]) /\ from_utf8_is_ok(rest(2))
        ELSE IF b1 >= 224 /\ b1 <= 239
             THEN /\ n >= 3
                  /\ IF b1 = 224 THEN bytes[2] >= 160 /\ bytes[2] <= 191
                     ELSE IF b1 = 237 THEN bytes[2] >= 128 /\ bytes[2] <= 159
                     ELSE IsCont(bytes[2])
                  /\ IsCont(bytes[3])
                  /\ from_utf8_is_ok(rest(3))
        ELSE IF b1 >= 240 /\ b1 <= 244
             THEN /\ n >= 4
                  /\ IF b1 = 240 THEN bytes[2] >= 144 /\ bytes[2] <= 191
                     ELSE IF b1 = 244 THEN bytes[2] >= 128 /\ bytes[2] <= 143
                     ELSE IsCont(bytes[2])
                  /\ IsCont(bytes[3])
                  /\ IsCont(bytes[4])
                  /\ from_utf8_is_ok(rest(4))
        ELSE FALSE

\* faulty variant: the nul byte is not counted
OwnedLen_no_nul(bytes) == Len(bytes)

\* the length MallocString::new records: len + 1 to account for the nul byte
OwnedLen(bytes) == Len(bytes) + 1

\* faulty variant: the bytes are adopted without the UTF-8 check
MallocString_new_unchecked(ptr) ==
    IF ptr = NULL
    THEN None
    ELSE Some(ptr, OwnedLen(to_bytes(ptr)))

\* MallocString::new: None for a null pointer or bytes that are not UTF-8
MallocString_new(ptr) ==
    IF ptr = NULL
    THEN None
    ELSE LET bytes == to_bytes(ptr)
         IN  IF from_utf8_is_ok(bytes)
             THEN Some(ptr, OwnedLen(bytes))
             ELSE None

\* Deref for MallocString: &self.data[..self.data.len - 1].  With len = 0 the
\* subtraction overflows usize: a debug build panics at the subtraction, a
\* release build wraps to usize::MAX and the slice index panics; both panic.
MallocString_deref(self) ==
    LET s == MallocBuffer_deref(self)
    IN  IF self.len = 0 \/ self.len - 1 > s.len
        THEN Panicked
        ELSE from_raw_parts(s.base, self.len - 1)

\* faulty variant: the last element is not dropped
DropReads_skip_last(self) ==
    LET v == MallocBuffer_deref(self)
    IN  [i \in 1..(v.len - 1) |->
           [op |-> "ptr_read", addr |-> v.base, idx |-> i - 1,
            val |-> Load(v.base, i - 1), size |-> 0]]

\* for item in self.iter() { ptr::read(item); }: one read per element of the
\* view, in ascending index order
DropReads(self) ==
    LET v == MallocBuffer_deref(self)
    IN  [i \in 1..v.len |->
           [op |-> "ptr_read", addr |-> v.base, idx |-> i - 1,
            val |-> Load(v.base, i - 1), size |-> 0]]

\* faulty variant: an empty buffer is taken to have nothing to free
FreeCall_skip_empty(self) ==
    IF self.len = 0
    THEN <<>>
    ELSE <<[op |-> "free", addr |-> self.ptr, idx |-> 0, val |-> 0,
            size |-> AllocSize(self.ptr)]>>

\* libc::free(self.ptr as *mut c_void): called whatever self.ptr is; free
\* releases the whole block at that address
FreeCall(self) ==
    <<[op |-> "free", addr |-> self.ptr, idx |-> 0, val |-> 0,
       size |-> AllocSize(self.ptr)]>>

\* faulty variant: the block is freed before its elements are dropped
MallocBuffer_drop_free_first(self) == FreeCall(self) \o DropReads(self)

\* faulty variant: the elements are dropped and the block is never freed
MallocBuffer_drop_no_free(self) == DropReads(self)

\* Drop for MallocBuffer: the reads, then the free
MallocBuffer_drop(self) == DropReads(self) \o FreeCall(self)

\* the heap after the free calls among evs: the block at each freed address
\* is gone; free(NULL) does nothing
HeapAfter(evs) ==
    [a \in RealAddrs |->
       IF \E i \in 1..Len(evs) : evs[i].op = "free" /\ evs[i].addr = a
       THEN [cells |-> <<>>, live |-> FALSE]
       ELSE heap[a]]

\* faulty variant: the wrapper is copied and the old binding stays usable
MovedFrom_copy(self) == self

\* let t = w: what the move leaves in the old binding.  MallocBuffer and
\* MallocString derive neither Copy nor Clone, so the old binding is dead
MovedFrom(self) == [self EXCEPT !.st = "Moved"]

----------------------------------------------------------------------------
(* The state machine. *)

NoSlot == [st |-> "Unconstructed", kind |-> "none", ptr |-> NULL, len |-> 0]
NoGiven == [ptr |-> NULL, len |-> 0]
NoView == [base |-> NULL, len |-> 0, panic |-> FALSE, elems |-> <<>>]

\* a view together with the elements read through it
Observed(v) ==
    [base |-> v.base, len |-> v.len, panic |-> v.panic, elems |-> ViewElems(v)]

\* the record of a call: new(ptr, len) on binding slot returned Some (ok) or
\* None; deref of binding slot returned view
Call(op, slot, ptr, len, ok, view) ==
    [op |-> op, slot |-> slot, ptr |-> ptr, len |-> len, ok |-> ok, view |-> view]
NoCall == Call("none", 0, NULL, 0, FALSE, NoView)

\* a nul-terminated block of at most n bytes: text without a nul, the
\* terminator, and possibly unused bytes after it (zeroed: nothing reads them)
CBlocks(n) ==
    {t \o Nuls(k) : t \in SeqsUpTo(Bytes \ {0}, n - 1), k \in 1..n}
        \cap SeqsUpTo(Bytes, n)

\* the blocks malloc handed out: a block of up to MaxLen elements and a
\* nul-terminated block of up to MaxStrLen bytes
Init ==
    /\ heap \in [RealAddrs -> [cells : {Iota(n) : n \in 0..MaxLen}
                                       \cup CBlocks(MaxStrLen),
                               live : {TRUE}]]
    /\ \A a \in BufAddrs : heap[a].cells \in {Iota(n) : n \in 0..MaxLen}
    /\ \A a \in StrAddrs : heap[a].cells \in CBlocks(MaxStrLen)
    /\ slots = [s \in Slots |-> NoSlot]
    /\ events = [s \in Slots |-> <<>>]
    /\ last = NoCall
    /\ given = [s \in Slots |-> NoGiven]

\* bindings are introduced in program order
Fresh(s) ==
    /\ slots[s].st = "Unconstructed"
    /\ \A t \in Slots : t < s => slots[t].st # "Unconstructed"

\* the caller's side of `unsafe`: a non-null pointer is a live block that no
\* wrapper owns
Adoptable(ptr) ==
    /\ ptr \in RealAddrs
    /\ heap[ptr].live
    /\ \A s \in Slots : slots[s].st = "Owned" => slots[s].ptr # ptr

\* binding the result of a constructor: Some(w) makes the binding Owned,
\* None leaves it unconstructed
Bind(s, kind, r, ptr, len) ==
    /\ slots' = IF r.ok
                THEN [slots EXCEPT ![s] = [st |-> "Owned", kind |-> kind,
                                           ptr |-> r.ptr, len |-> r.len]]
                ELSE slots
    /\ given' = IF r.ok THEN [given EXCEPT ![s] = [ptr |-> ptr, len |-> len]]
                ELSE given
    /\ UNCHANGED <<heap, events>>

\* let buf = MallocBuffer::new(ptr, len)
NewBuffer(s, ptr, len) ==
    /\ Fresh(s)
    /\ \/ ptr = NULL
       \/ ptr \in BufAddrs /\ Adoptable(ptr) /\ len <= AllocSize(ptr)
    /\ LET r == MallocBuffer_new(ptr, len)
       IN  /\ last' = Call("new_buf", s, ptr, len, r.ok, NoView)
           /\ Bind(s, "buf", r, ptr, len)

\* let s = MallocString::new(ptr)
NewString(s, ptr) ==
    /\ Fresh(s)
    /\ \/ ptr = NULL
       \/ ptr \in StrAddrs /\ Adoptable(ptr) /\ HasNul(heap[ptr].cells)
    /\ LET r == MallocString_new(ptr)
       IN  /\ last' = Call("new_str", s, ptr, 0, r.ok, NoView)
           /\ Bind(s, "str", r, ptr, 0)

\* &*w: deref takes &self and changes nothing
Deref(s) ==
    /\ slots[s].st = "Owned"
    /\ last' = Call("deref", s, slots[s].ptr, slots[s].len, TRUE,
                    Observed(IF slots[s].kind = "str"
                             THEN MallocString_deref(slots[s])
                             ELSE MallocBuffer_deref(slots[s])))
    /\ UNCHANGED <<heap, slots, events, given>>

\* let t = w: the fields are copied to the new binding, the old binding is
\* moved-from and its destructor never runs
Move(s, t) ==
    /\ slots[s].st = "Owned"
    /\ Fresh(t)
    /\ slots' = [slots EXCEPT ![t] = slots[s], ![s] = MovedFrom(slots[s])]
    /\ given' = [given EXCEPT ![t] = given[s]]
    /\ last' = NoCall
    /\ UNCHANGED <<heap, events>>

\* scope exit or drop(w): Drop for MallocBuffer (for a MallocString, the
\* drop of its data field)
Drop(s) ==
    /\ slots[s].st = "Owned"
    /\ events' = [events EXCEPT ![s] = MallocBuffer_drop(slots[s])]
    /\ heap' = HeapAfter(MallocBuffer_drop(slots[s]))
    /\ slots' = [slots EXCEPT ![s].st = "Released"]
    /\ last' = NoCall
    /\ UNCHANGED given

Next ==
    \/ \E s \in Slots, ptr \in {NULL} \cup BufAddrs, len \in 0..MaxLen :
         NewBuffer(s, ptr, len)
    \/ \E s \in Slots, ptr \in {NULL} \cup StrAddrs : NewString(s, ptr)
    \/ \E s \in Slots : Deref(s)
    \/ \E s \in Slots, t \in Slots : Move(s, t)
    \/ \E s \in Slots : Drop(s)

Spec == Init /\ [][Next]_vars
----------------------------------------------------------------------------
(* Vocabulary of the properties, stated without the operators above. *)

Built(s) == slots[s].st # "Unconstructed"
IsBuf(s) == Built(s) /\ slots[s].kind = "buf"
IsStr(s) == Built(s) /\ slots[s].kind = "str"

\* the bytes of a block strictly before its first nul
TextOf(cells) ==
    LET k == CHOOSE j \in 0..Len(cells) :
                 /\ \A i \in 1..j : cells[i] # 0
                 /\ j < Len(cells) => cells[j + 1] = 0
    IN  SubSeq(cells, 1, k)

\* well-formed UTF-8 over Bytes: 'h' stands alone, C3 and A9 occur only as
\* the pair C3 A9
WellFormedText(t) ==
    \A i \in 1..Len(t) :
        /\ t[i] \in {104, 195, 169}
        /\ t[i] = 195 => i < Len(t) /\ t[i + 1] = 169
        /\ t[i] = 169 => i > 1 /\ t[i - 1] = 195

NumOf(evs, op) == Cardinality({i \in 1..Len(evs) : evs[i].op = op})

\* the free calls made on address a, over all bindings
FreesOf(a) ==
    {<<s, i>> \in Slots \X (1..(MaxLen + MaxStrLen + 2)) :
        i <= Len(events[s]) /\ events[s][i].op = "free" /\ events[s][i].addr = a}

----------------------------------------------------------------------------
(* C1: MallocBuffer::new(ptr, len) returns None exactly when len > 0 and   *)
(* ptr is null; in every other case it returns a wrapper that records ptr  *)
(* and len as given.                                                       *)
C1_NewFailsExactlyOnNullNonEmpty ==
    last.op = "new_buf" =>
        /\ last.ok <=> ~(last.len > 0 /\ last.ptr = NULL)
        /\ last.ok =>
             /\ slots[last.slot].st = "Owned"
             /\ slots[last.slot].kind = "buf"
             /\ slots[last.slot].ptr = last.ptr
             /\ slots[last.slot].len = last.len
        /\ ~last.ok => slots[last.slot] = NoSlot

\* a wrapper built from (null, 0) is held while new(null, len > 0) returns None
C1_Witness ==
    /\ last.op = "new_buf" /\ ~last.ok /\ last.ptr = NULL /\ last.len > 0
    /\ \E s \in Slots : /\ slots[s].st = "Owned" /\ slots[s].kind = "buf"
                        /\ slots[s].ptr = NULL /\ slots[s].len = 0

(* C2: the view of a MallocBuffer built from a non-null address and        *)
(* count > 0 has length count, is based at the recorded address (not the   *)
(* placeholder) and shows the stored values in order.                      *)
C2_ViewShowsStoredElements ==
    (/\ last.op = "deref"
     /\ IsBuf(last.slot)
     /\ given[last.slot].ptr # NULL
     /\ given[last.slot].len > 0) =>
        /\ ~last.view.panic
        /\ last.view.len = given[last.slot].len
        /\ last.view.base = given[last.slot].ptr
        /\ last.view.base # Sentinel
        /\ last.view.elems = SubSeq(heap[given[last.slot].ptr].cells, 1,
                                    given[last.slot].len)
        /\ last.view.elems = Iota(given[last.slot].len)

\* a buffer of two elements is viewed
C2_Witness ==
    /\ last.op = "deref"
    /\ IsBuf(last.slot)
    /\ given[last.slot].ptr \in BufAddrs
    /\ given[last.slot].len = 2
    /\ last.view.elems = <<1, 2>>

(* C3: the view of a MallocBuffer of count 0 is empty; the base of every   *)
(* view is non-null; the placeholder 0x1 is the base exactly when the      *)
(* recorded address is null and the length 0; the placeholder is never     *)
(* read through and never passed to free.                                  *)
C3_EmptyViewNeverNull ==
    /\ last.op = "deref" =>
         /\ last.view.base # NULL
         /\ IsBuf(last.slot) =>
              /\ last.view.base = Sentinel
                   <=> (slots[last.slot].ptr = NULL /\ slots[last.slot].len = 0)
              /\ given[last.slot].len = 0 =>
                   last.view.len = 0 /\ last.view.elems = <<>>
         /\ last.view.base = Sentinel => last.view.len = 0
    /\ \A s \in Slots : \A i \in 1..Len(events[s]) :
         events[s][i].addr # Sentinel

\* the view of a buffer built from (null, 0) is taken
C3_Witness ==
    /\ last.op = "deref"
    /\ IsBuf(last.slot)
    /\ given[last.slot] = [ptr |-> NULL, len |-> 0]
    /\ last.view.base = Sentinel
    /\ last.view.elems = <<>>
\* the calls a released buffer of count elements made: count reads at the
\* recorded address, indexes 0 .. count-1 in that order, and after them ...
ReadsThenRest(s, rest) ==
    LET n == given[s].len
    IN  /\ Len(events[s]) = n + Len(rest)
        /\ \A i \in 1..n : /\ events[s][i].op = "ptr_read"
                           /\ events[s][i].idx = i - 1
                           /\ events[s][i].addr = slots[s].ptr
                           /\ events[s][i].val = i
        /\ \A i \in 1..Len(rest) : /\ events[s][n + i].op = rest[i].op
                                   /\ events[s][n + i].addr = rest[i].addr

(* C4 as stated: releasing a MallocBuffer of count elements makes count    *)
(* element destructions in ascending index order, then exactly one free    *)
(* call on the recorded address, or no free call at all when the buffer    *)
(* was built from (null, 0).                                               *)
C4_Original_NoFreeCallOnNull ==
    \A s \in Slots :
        (IsBuf(s) /\ slots[s].st = "Released") =>
            IF slots[s].ptr = NULL /\ slots[s].len = 0
            THEN ReadsThenRest(s, <<>>)
            ELSE ReadsThenRest(s, <<[op |-> "free", addr |-> slots[s].ptr]>>)

(* C4 as amended: releasing a MallocBuffer of count elements makes count   *)
(* element destructions in ascending index order, then exactly one free    *)
(* call on the recorded address; for a buffer built from (null, 0) that    *)
(* call is free(NULL), which releases no block.                            *)
C4_ReadsThenOneFree ==
    \A s \in Slots :
        (IsBuf(s) /\ slots[s].st = "Released") =>
            /\ ReadsThenRest(s, <<[op |-> "free", addr |-> slots[s].ptr]>>)
            /\ slots[s].ptr = NULL =>
                 /\ events[s][Len(events[s])].size = 0
                 /\ \A a \in RealAddrs :
                      ~heap[a].live => \E t \in Slots : /\ slots[t].st = "Released"
                                                        /\ slots[t].ptr = a

\* a buffer of two elements and a buffer built from (null, 0) are released
C4_Witness ==
    /\ \E s \in Slots : /\ IsBuf(s) /\ slots[s].st = "Released"
                        /\ slots[s].ptr \in BufAddrs /\ slots[s].len = 2
    /\ \E s \in Slots : /\ IsBuf(s) /\ slots[s].st = "Released"
                        /\ slots[s].ptr = NULL

(* C5: MallocString::new(ptr) returns a wrapper iff ptr is non-null and    *)
(* the bytes before the first nul are well-formed UTF-8; the view of the   *)
(* wrapper is exactly those bytes; a refusal builds nothing.               *)
C5_StringNewIffUtf8 ==
    /\ last.op = "new_str" =>
         /\ last.ok <=> (/\ last.ptr # NULL
                         /\ WellFormedText(TextOf(heap[last.ptr].cells)))
         /\ last.ok => /\ slots[last.slot].st = "Owned"
                       /\ slots[last.slot].kind = "str"
                       /\ slots[last.slot].ptr = last.ptr
         /\ ~last.ok => slots[last.slot] = NoSlot
    /\ (last.op = "deref" /\ IsStr(last.slot)) =>
         /\ ~last.view.panic
         /\ last.view.base = given[last.slot].ptr
         /\ last.view.elems = TextOf(heap[given[last.slot].ptr].cells)
         /\ WellFormedText(last.view.elems)

\* the view of a string holding the two-byte character C3 A9 is taken
C5_Witness ==
    /\ last.op = "deref"
    /\ IsStr(last.slot)
    /\ last.view.elems = <<195, 169>>
\* the binding that holds the wrapper of block a now, or held it at its release
HoldersOf(a) ==
    {s \in Slots : slots[s].ptr = a /\ slots[s].st \in {"Owned", "Released"}}

(* C6: every adopted block is released exactly once.  While a wrapper of   *)
(* a real address is owned, the block is live and free was not called on   *)
(* it; once a wrapper is released, free was called on its address exactly  *)
(* once, by that release; a moved-from binding made no call; a view is     *)
(* only ever taken of an owned wrapper.                                    *)
C6_ReleasedExactlyOnce ==
    /\ \A a \in RealAddrs :
         /\ Cardinality(FreesOf(a)) <= 1
         /\ (\E s \in Slots : Built(s) /\ slots[s].ptr = a) =>
                Cardinality(HoldersOf(a)) = 1
         /\ heap[a].live <=> FreesOf(a) = {}
    /\ \A s \in Slots :
         /\ (slots[s].st = "Owned" /\ slots[s].ptr \in RealAddrs) =>
               /\ heap[slots[s].ptr].live
               /\ FreesOf(slots[s].ptr) = {}
         /\ (slots[s].st = "Released" /\ slots[s].ptr \in RealAddrs) =>
               /\ ~heap[slots[s].ptr].live
               /\ Cardinality(FreesOf(slots[s].ptr)) = 1
               /\ \A f \in FreesOf(slots[s].ptr) : f[1] = s
               /\ NumOf(events[s], "free") = 1
         /\ slots[s].st \in {"Unconstructed", "Owned", "Moved"} => events[s] = <<>>
    /\ last.op = "deref" => slots[last.slot].st = "Owned"

\* a string was moved and then released by its new binding
C6_Witness ==
    \E s, t \in Slots :
        /\ slots[s].st = "Moved" /\ slots[s].kind = "str"
        /\ slots[t].st = "Released" /\ slots[t].ptr = slots[s].ptr
        /\ slots[t].ptr \in StrAddrs

\* the input of a constructor call that must be refused
Refused(c, h) ==
    \/ c.op = "new_buf" /\ c.len > 0 /\ c.ptr = NULL
    \/ c.op = "new_str" /\ c.ptr = NULL
    \/ c.op = "new_str" /\ c.ptr # NULL /\ ~WellFormedText(TextOf(h[c.ptr].cells))

\* every call made is the call of a released wrapper on its own address, and
\* every block that is gone was released by a wrapper
CallsAreOwners ==
    /\ \A s \in Slots : \A i \in 1..Len(events[s]) :
         /\ slots[s].st = "Released"
         /\ events[s][i].addr = given[s].ptr
    /\ \A a \in RealAddrs :
         ~heap[a].live => \E s \in Slots : /\ slots[s].st = "Released"
                                           /\ given[s].ptr = a
    /\ \A s \in Slots :
         (slots[s].st = "Owned" /\ slots[s].kind = "str") =>
             WellFormedText(TextOf(heap[slots[s].ptr].cells))
    /\ \A s \in Slots :
         Built(s) => ~(given[s].ptr = NULL /\ slots[s].len > 0)

(* C7: a refused construction takes no ownership.  The step of a           *)
(* MallocBuffer::new or MallocString::new that must fail builds no         *)
(* wrapper, makes no read and no free call and leaves the heap as it was;  *)
(* and at all times every call made and every block gone belongs to a      *)
(* wrapper that was built, so a refused block is never freed by a wrapper. *)
C7_RefusalTakesNothing ==
    /\ []CallsAreOwners
    /\ [][Refused(last', heap) =>
            /\ ~last'.ok
            /\ UNCHANGED <<slots, events, heap, given>>]_vars

\* a block of bytes that are not UTF-8 was refused and is still live
C7_Witness ==
    /\ last.op = "new_str" /\ ~last.ok
    /\ last.ptr \in StrAddrs
    /\ heap[last.ptr].live
    /\ slots[last.slot] = NoSlot

\* what holds of every MallocString, up to the size of the region freed
StrLenAndView(s) ==
    /\ slots[s].len >= 1
    /\ slots[s].st = "Owned" =>
         slots[s].len = Len(TextOf(heap[slots[s].ptr].cells)) + 1
    /\ (last.op = "deref" /\ last.slot = s) =>
         /\ ~last.view.panic
         /\ last.view.len = slots[s].len - 1
         /\ last.view.len = Len(TextOf(heap[slots[s].ptr].cells))

(* C8 as stated: the length a MallocString records is raw_len + 1, never   *)
(* 0, the view has length raw_len, and on release the region freed is the  *)
(* raw_len + 1 bytes at the adopted address.                               *)
C8_Original_FreedRegionIsOwnedLen ==
    \A s \in Slots :
        IsStr(s) =>
            /\ StrLenAndView(s)
            /\ slots[s].st = "Released" =>
                 \E i \in 1..Len(events[s]) :
                     /\ events[s][i].op = "free"
                     /\ events[s][i].addr = given[s].ptr
                     /\ events[s][i].size = slots[s].len

(* C8 as amended: the length a MallocString records is raw_len + 1, never  *)
(* 0, and the view has length raw_len; on release the block at the adopted *)
(* address is freed whole: it holds at least the raw_len + 1 bytes, and    *)
(* more when malloc handed out bytes after the terminator.                 *)
C8_OwnedLenCountsNul ==
    \A s \in Slots :
        IsStr(s) =>
            /\ StrLenAndView(s)
            /\ slots[s].st = "Released" =>
                 \E i \in 1..Len(events[s]) :
                     /\ events[s][i].op = "free"
                     /\ events[s][i].addr = given[s].ptr
                     /\ events[s][i].size >= slots[s].len

\* a string of two bytes and the terminator was released
C8_Witness ==
    \E s \in Slots :
        /\ IsStr(s) /\ slots[s].st = "Released" /\ slots[s].len = 3
        /\ NumOf(events[s], "free") = 1

\* the number of elements a wrapper adopted
Adopted(s) == IF slots[s].kind = "str" THEN slots[s].len ELSE given[s].len

(* C9: a view access changes nothing: a deref step leaves every wrapper's  *)
(* fields, the heap and the calls made unchanged, and a deref repeated on  *)
(* the same binding returns the same view; the reads of elements happen at *)
(* the release of the wrapper, as many as it adopted, and at no other      *)
(* step.                                                                   *)
C9_DerefChangesNothing ==
    [][/\ last'.op = "deref" =>
            /\ UNCHANGED <<slots, events, heap, given>>
            /\ (last.op = "deref" /\ last.slot = last'.slot) =>
                   last'.view = last.view
       /\ \A s \in Slots :
            IF slots[s].st = "Owned" /\ slots'[s].st = "Released"
            THEN /\ events[s] = <<>>
                 /\ NumOf(events'[s], "ptr_read") = Adopted(s)
            ELSE events'[s] = events[s]]_vars

\* a view was taken while another wrapper's elements had been dropped
C9_Witness ==
    /\ last.op = "deref"
    /\ \E s \in Slots : /\ slots[s].st = "Released"
                        /\ NumOf(events[s], "ptr_read") = 2

(* C10: a MallocBuffer built from a non-null address with count 0 keeps    *)
(* that address (the placeholder is not put in its place), its view is     *)
(* based at it, its release drops no element and frees that address        *)
(* exactly once.                                                           *)
C10_EmptyRealBlockIsFreed ==
    \A s \in Slots :
        (IsBuf(s) /\ given[s].ptr # NULL /\ given[s].len = 0) =>
            /\ slots[s].ptr = given[s].ptr
            /\ slots[s].ptr # Sentinel
            /\ (last.op = "deref" /\ last.slot = s) =>
                 /\ last.view.base = given[s].ptr
                 /\ last.view.len = 0
            /\ slots[s].st = "Owned" => heap[given[s].ptr].live
            /\ slots[s].st = "Released" =>
                 /\ Len(events[s]) = 1
                 /\ events[s][1].op = "free"
                 /\ events[s][1].addr = given[s].ptr
                 /\ ~heap[given[s].ptr].live

\* a buffer built from a real address with count 0 was released
C10_Witness ==
    \E s \in Slots :
        /\ IsBuf(s) /\ slots[s].st = "Released"
        /\ given[s].ptr \in BufAddrs /\ given[s].len = 0
====
